---- MODULE Spec2Model ----
(***************************************************************************)
(* Model of the solana-token program: the borsh codec of TokenInstruction  *)
(* (src/src/instruction.rs) and the validate-then-delegate dispatcher      *)
(* Processor::process (src/src/processor.rs).                              *)
(*                                                                         *)
(* A u64 is kept as four 16-bit limbs, most significant first, because a   *)
(* TLC integer has 32 bits; the byte order of the wire format is computed  *)
(* from the limbs, it is not the order the limbs are stored in.            *)
(***************************************************************************)
EXTENDS Integers, Sequences, FiniteSets, TLC

VARIABLES
    pc,         \* position inside Processor::process, or of the codec run
    accounts,   \* accounts: &[AccountInfo], the host's ordered account list
    input,      \* input: &[u8]
    instr,      \* the decoded TokenInstruction (NoInstr before decoding)
    taken,      \* how many next_account_info calls have succeeded
    inspected,  \* flags read so far: set of <<position, flag name>>
    calls,      \* the invoke calls issued so far, in order
    resp,       \* what the (last) invoke returned, NoResult before any
    result,     \* the ProgramResult of process, NoResult while running
    prev,       \* the host's record of the previous dispatch (NoPrev if none)
    op,         \* codec run: the TokenInstruction handed to try_to_vec
    wire,       \* codec run: try_to_vec(op)
    back,       \* codec run: try_from_slice(wire)
    rewire      \* codec run: try_to_vec(try_from_slice(input))

vars == <<pc, accounts, input, instr, taken, inspected, calls, resp, result,
          prev, op, wire, back, rewire>>

-----------------------------------------------------------------------------
(* Bounds *)

MaxAccounts == 4    \* longest account list the host supplies
MaxInputLen == 10   \* longest instruction payload the host supplies
MaxTag == 3         \* largest first byte of a generated payload

-----------------------------------------------------------------------------
(* u64 and its little-endian bytes *)

\* Limb samples: 0, 1, the limbs of the test vectors, and the largest limb.
LimbSamples == {0, 1, 16, 18, 33, 54919, 59534, 62535, 65535}

U64(l3, l2, l1, l0) == <<l3, l2, l1, l0>>

\* The j-th 16-bit limb of a, j = 0 the least significant.
LimbOf(a, j) == a[4 - j]

ToLeBytesBE(a) ==
    [i \in 1..8 |-> (LimbOf(a, (8 - i) \div 2) \div (IF (8 - i) % 2 = 0 THEN 1 ELSE 256)) % 256]

\* u64::to_le_bytes as borsh writes a u64: byte i (from 0) is (a div 256^i) mod 256.
ToLeBytes(a) ==
    [i \in 1..8 |-> (LimbOf(a, (i - 1) \div 2) \div (IF (i - 1) % 2 = 0 THEN 1 ELSE 256)) % 256]

FromLeBytesBE(b) ==
    U64(b[1] * 256 + b[2], b[3] * 256 + b[4], b[5] * 256 + b[6], b[7] * 256 + b[8])

\* u64::from_le_bytes as borsh reads a u64 from 8 bytes.
FromLeBytes(b) ==
    U64(b[7] + 256 * b[8], b[5] + 256 * b[6], b[3] + 256 * b[4], b[1] + 256 * b[2])

-----------------------------------------------------------------------------
(* TokenInstruction and its borsh codec *)

\* The variants in declaration order; borsh's variant index is the position - 1.
Variants == <<"TransferLamports", "TransferSplToken", "ApproveSplToken">>

TokenInstruction(variant, amount) == [variant |-> variant, amount |-> amount]

NoInstr == [variant |-> "none", amount |-> U64(0, 0, 0, 0)]

VariantIndex(variant) == CHOOSE i \in 0..2 : Variants[i + 1] = variant

TryToVecNoTag(ins) == ToLeBytes(ins.amount)

\* BorshSerialize::try_to_vec: the variant index as one byte, then the fields.
TryToVec(ins) == <<VariantIndex(ins.variant)>> \o ToLeBytes(ins.amount)

IoOk(ins) == [ok |-> TRUE, value |-> ins]
IoErr == [ok |-> FALSE, value |-> NoInstr]

TryFromSliceLax(v) ==
    IF Len(v) < 1 THEN IoErr
    ELSE IF v[1] > 2 THEN IoErr
    ELSE IF Len(v) - 1 < 8 THEN IoErr
    ELSE IoOk(TokenInstruction(Variants[v[1] + 1], FromLeBytes(SubSeq(v, 2, 9))))

\* BorshDeserialize::try_from_slice: read the tag byte, reject an unknown
\* variant index, read the 8 bytes of the u64, reject bytes left unread.
TryFromSlice(v) ==
    IF Len(v) < 1 THEN IoErr
    ELSE IF v[1] > 2 THEN IoErr
    ELSE IF Len(v) - 1 < 8 THEN IoErr
    ELSE IF Len(v) - 9 > 0 THEN IoErr
    ELSE IoOk(TokenInstruction(Variants[v[1] + 1], FromLeBytes(SubSeq(v, 2, 9))))

-----------------------------------------------------------------------------
(* ProgramResult *)

ProgramError(kind, code) == [kind |-> kind, code |-> code]

Ok == ProgramError("Ok", 0)
NoResult == ProgramError("none", 0)

\* TransferError::AccountNonWritable as u32: the first (only) variant.
AccountNonWritable == 0

IntoProgramErrorAsSignature(e) == ProgramError("MissingRequiredSignature", 0)

\* impl From<TransferError> for ProgramError: ProgramError::Custom(e as u32).
IntoProgramError(e) == ProgramError("Custom", e)

\* impl From<std::io::Error> for ProgramError, applied by `?` on try_from_slice.
BorshIoError == ProgramError("BorshIoError", 0)

\* next_account_info on an exhausted iterator.
NotEnoughAccountKeys == ProgramError("NotEnoughAccountKeys", 0)

MissingRequiredSignature == ProgramError("MissingRequiredSignature", 0)

\* spl_token::check_program_account's error, raised by the instruction builders.
IncorrectProgramId == ProgramError("IncorrectProgramId", 0)

\* Failures the system and token programs report for a transfer or an approve:
\* Custom(1) is SystemError::ResultWithNegativeLamports and
\* TokenError::InsufficientFunds, Custom(4) is TokenError::OwnerMismatch.
InvokeErrors ==
    {ProgramError("Custom", 1), ProgramError("Custom", 4), ProgramError("InvalidAccountData", 0)}

\* What invoke can return to the caller.
InvokeResults == {Ok} \cup InvokeErrors

-----------------------------------------------------------------------------
(* Accounts *)

AccountInfo(key, is_signer, is_writable) ==
    [key |-> key, is_signer |-> is_signer, is_writable |-> is_writable]

AccountMeta(pubkey, is_signer, is_writable) ==
    [pubkey |-> pubkey, is_signer |-> is_signer, is_writable |-> is_writable]

SystemProgramId == "system_program::id()"
SplTokenId == "spl_token::id()"

\* The account at 0-based position p of the list.
Acc(accs, p) == accs[p + 1]

\* The number of next_account_info calls each handler makes before its checks.
TransferLamportsAccounts == 2
TransferSplTokenAccounts == 4
ApproveSplTokenAccounts == 4

\* n successive next_account_info(acc_iter)? calls: the count fetched before
\* the iterator ran out, and whether all n were there.
NextAccountInfos(accs, n) ==
    [fetched |-> IF Len(accs) < n THEN Len(accs) ELSE n, ok |-> Len(accs) >= n]

-----------------------------------------------------------------------------
(* The flag checks of the three handlers.  Each returns the ProgramResult of
   the checks (Ok when all pass) and the flags it read, by 0-based position. *)

Checked(res, seen) == [res |-> res, seen |-> seen]

TransferLamportsChecksNoTo(accs) ==
    IF ~Acc(accs, 0).is_signer
    THEN Checked(MissingRequiredSignature, {<<0, "is_signer">>})
    ELSE IF ~Acc(accs, 0).is_writable
    THEN Checked(IntoProgramError(AccountNonWritable),
                 {<<0, "is_signer">>, <<0, "is_writable">>})
    ELSE Checked(Ok, {<<0, "is_signer">>, <<0, "is_writable">>})

TransferLamportsChecksWritableFirst(accs) ==
    IF ~Acc(accs, 0).is_writable
    THEN Checked(IntoProgramError(AccountNonWritable), {<<0, "is_writable">>})
    ELSE IF ~Acc(accs, 0).is_signer
    THEN Checked(MissingRequiredSignature,
                 {<<0, "is_writable">>, <<0, "is_signer">>})
    ELSE IF ~Acc(accs, 1).is_writable
    THEN Checked(IntoProgramError(AccountNonWritable),
                 {<<0, "is_signer">>, <<0, "is_writable">>, <<1, "is_writable">>})
    ELSE Checked(Ok, {<<0, "is_signer">>, <<0, "is_writable">>, <<1, "is_writable">>})

\* transfer_lamports: from_acc signer, from_acc writable, to_acc writable.
TransferLamportsChecks(accs) ==
    IF ~Acc(accs, 0).is_signer
    THEN Checked(MissingRequiredSignature, {<<0, "is_signer">>})
    ELSE IF ~Acc(accs, 0).is_writable
    THEN Checked(IntoProgramError(AccountNonWritable),
                 {<<0, "is_signer">>, <<0, "is_writable">>})
    ELSE IF ~Acc(accs, 1).is_writable
    THEN Checked(IntoProgramError(AccountNonWritable),
                 {<<0, "is_signer">>, <<0, "is_writable">>, <<1, "is_writable">>})
    ELSE Checked(Ok, {<<0, "is_signer">>, <<0, "is_writable">>, <<1, "is_writable">>})

TransferSplTokenChecksPlaceholder(accs) ==
    IF ~Acc(accs, 0).is_signer
    THEN Checked(MissingRequiredSignature, {<<0, "is_signer">>})
    ELSE IF ~Acc(accs, 1).is_writable
    THEN Checked(IntoProgramError(AccountNonWritable),
                 {<<0, "is_signer">>, <<1, "is_writable">>})
    ELSE IF ~Acc(accs, 2).is_writable
    THEN Checked(IntoProgramError(AccountNonWritable),
                 {<<0, "is_signer">>, <<1, "is_writable">>, <<2, "is_writable">>})
    ELSE IF ~Acc(accs, 3).is_writable
    THEN Checked(IntoProgramError(AccountNonWritable),
                 {<<0, "is_signer">>, <<1, "is_writable">>, <<2, "is_writable">>,
                  <<3, "is_writable">>})
    ELSE Checked(Ok, {<<0, "is_signer">>, <<1, "is_writable">>, <<2, "is_writable">>,
                      <<3, "is_writable">>})

\* transfer_spl_token: owner_acc signer, from_spl_token_acc writable,
\* to_spl_token_acc writable.
TransferSplTokenChecks(accs) ==
    IF ~Acc(accs, 0).is_signer
    THEN Checked(MissingRequiredSignature, {<<0, "is_signer">>})
    ELSE IF ~Acc(accs, 1).is_writable
    THEN Checked(IntoProgramError(AccountNonWritable),
                 {<<0, "is_signer">>, <<1, "is_writable">>})
    ELSE IF ~Acc(accs, 2).is_writable
    THEN Checked(IntoProgramError(AccountNonWritable),
                 {<<0, "is_signer">>, <<1, "is_writable">>, <<2, "is_writable">>})
    ELSE Checked(Ok, {<<0, "is_signer">>, <<1, "is_writable">>, <<2, "is_writable">>})

ApproveSplTokenChecksOwnerWritable(accs) ==
    IF ~Acc(accs, 0).is_signer
    THEN Checked(MissingRequiredSignature, {<<0, "is_signer">>})
    ELSE IF ~Acc(accs, 0).is_writable
    THEN Checked(IntoProgramError(AccountNonWritable),
                 {<<0, "is_signer">>, <<0, "is_writable">>})
    ELSE IF ~Acc(accs, 1).is_writable
    THEN Checked(IntoProgramError(AccountNonWritable),
                 {<<0, "is_signer">>, <<0, "is_writable">>, <<1, "is_writable">>})
    ELSE IF ~Acc(accs, 2).is_writable
    THEN Checked(IntoProgramError(AccountNonWritable),
                 {<<0, "is_signer">>, <<0, "is_writable">>, <<1, "is_writable">>,
                  <<2, "is_writable">>})
    ELSE Checked(Ok, {<<0, "is_signer">>, <<0, "is_writable">>, <<1, "is_writable">>,
                      <<2, "is_writable">>})

\* approve_spl_token: owner_acc signer, from_spl_token_acc writable,
\* to_spl_token_acc writable.
ApproveSplTokenChecks(accs) ==
    IF ~Acc(accs, 0).is_signer
    THEN Checked(MissingRequiredSignature, {<<0, "is_signer">>})
    ELSE IF ~Acc(accs, 1).is_writable
    THEN Checked(IntoProgramError(AccountNonWritable),
                 {<<0, "is_signer">>, <<1, "is_writable">>})
    ELSE IF ~Acc(accs, 2).is_writable
    THEN Checked(IntoProgramError(AccountNonWritable),
                 {<<0, "is_signer">>, <<1, "is_writable">>, <<2, "is_writable">>})
    ELSE Checked(Ok, {<<0, "is_signer">>, <<1, "is_writable">>, <<2, "is_writable">>})

-----------------------------------------------------------------------------
(* The instructions handed to invoke *)

Instruction(program_id, metas, data) ==
    [program_id |-> program_id, accounts |-> metas, data |-> data]

Built(ins) == [ok |-> TRUE, value |-> ins]
NotBuilt == [ok |-> FALSE, value |-> Instruction("none", <<>>, NoInstr)]

SystemTransferSwapped(from_pubkey, to_pubkey, lamports) ==
    Instruction(SystemProgramId,
                <<AccountMeta(to_pubkey, TRUE, TRUE), AccountMeta(from_pubkey, FALSE, TRUE)>>,
                [kind |-> "SystemInstruction::Transfer", amount |-> lamports])

\* system_instruction::transfer(from_pubkey, to_pubkey, lamports).
SystemTransfer(from_pubkey, to_pubkey, lamports) ==
    Instruction(SystemProgramId,
                <<AccountMeta(from_pubkey, TRUE, TRUE), AccountMeta(to_pubkey, FALSE, TRUE)>>,
                [kind |-> "SystemInstruction::Transfer", amount |-> lamports])

\* spl_token::check_program_account(token_program_id).
CheckProgramAccount(token_program_id) == token_program_id = SplTokenId

\* spl_token::instruction::transfer(token_program_id, source, destination,
\* authority, signer_pubkeys, amount)?  The authority is marked as signer only
\* when signer_pubkeys is empty; each signer follows as a read-only signer.
SplTransfer(token_program_id, source, destination, authority, signers, amount) ==
    IF ~CheckProgramAccount(token_program_id) THEN NotBuilt
    ELSE Built(Instruction(token_program_id,
                 <<AccountMeta(source, FALSE, TRUE),
                   AccountMeta(destination, FALSE, TRUE),
                   AccountMeta(authority, signers = <<>>, FALSE)>>
                 \o [i \in 1..Len(signers) |-> AccountMeta(signers[i], TRUE, FALSE)],
                 [kind |-> "TokenInstruction::Transfer", amount |-> amount]))

\* spl_token::instruction::approve(token_program_id, source, delegate, owner,
\* signer_pubkeys, amount)?
SplApprove(token_program_id, source, delegate, owner, signers, amount) ==
    IF ~CheckProgramAccount(token_program_id) THEN NotBuilt
    ELSE Built(Instruction(token_program_id,
                 <<AccountMeta(source, FALSE, TRUE),
                   AccountMeta(delegate, FALSE, FALSE),
                   AccountMeta(owner, signers = <<>>, FALSE)>>
                 \o [i \in 1..Len(signers) |-> AccountMeta(signers[i], TRUE, FALSE)],
                 [kind |-> "TokenInstruction::Approve", amount |-> amount]))

Call(ins, account_infos) == [instruction |-> ins, account_infos |-> account_infos]

InvokeTwice(issued, ins, account_infos) ==
    issued \o <<Call(ins, account_infos), Call(ins, account_infos)>>

\* invoke(&instruction, &account_infos): one more call handed to the host.
Invoke(issued, ins, account_infos) == Append(issued, Call(ins, account_infos))

-----------------------------------------------------------------------------
(* The inputs the host supplies *)

\* Amounts: 0, the amount of the integration test (1_111_111) and u64::MAX.
Amounts == {U64(0, 0, 0, 0), U64(0, 0, 16, 62535), U64(65535, 65535, 65535, 65535)}

Prefix(s, n) == SubSeq(s, 1, IF n < Len(s) THEN n ELSE Len(s))

\* Payloads: every prefix, up to MaxInputLen bytes, of a tag byte, the 8 bytes
\* of an amount and trailing bytes; well-formed ones are among them.
Inputs ==
    {Prefix(<<t>> \o ToLeBytes(a) \o <<7, 7, 7, 7>>, n) :
        t \in 0..MaxTag, a \in Amounts, n \in 0..MaxInputLen}

\* Keys by position: the list a lamports client sends (system program at
\* position 2) and the list a token client sends (token program at position 3).
KeyLayouts ==
    {<<"A", "B", SystemProgramId, "D", "E", "F">>,
     <<"A", "B", "C", SplTokenId, "E", "F">>}

AccountLists ==
    UNION {{[i \in 1..n |-> AccountInfo(keys[i], sg[i], wr[i])] :
                keys \in KeyLayouts, sg \in [1..n -> BOOLEAN], wr \in [1..n -> BOOLEAN]} :
           n \in 0..MaxAccounts}

NoPrev == [set |-> FALSE, accounts |-> <<>>, calls |-> <<>>, resp |-> NoResult,
           result |-> NoResult]

Init ==
    /\ pc = "process"
    /\ accounts \in AccountLists
    /\ input \in Inputs
    /\ instr = NoInstr
    /\ taken = 0
    /\ inspected = {}
    /\ calls = <<>>
    /\ resp = NoResult
    /\ result = NoResult
    /\ prev = NoPrev
    /\ op = NoInstr
    /\ wire = <<>>
    /\ back = IoErr
    /\ rewire = <<>>

codecVars == <<op, wire, back, rewire>>

-----------------------------------------------------------------------------
(* Processor::process *)

\* process: decode the input (`?` returns the failure) and match the variant.
Process ==
    /\ pc = "process"
    /\ LET parsed == TryFromSlice(input) IN
         IF ~parsed.ok
         THEN /\ result' = BorshIoError
              /\ pc' = "done"
              /\ instr' = instr
         ELSE /\ instr' = parsed.value
              /\ pc' = CASE parsed.value.variant = "TransferLamports" -> "transfer_lamports"
                         [] parsed.value.variant = "TransferSplToken" -> "transfer_spl_token"
                         [] parsed.value.variant = "ApproveSplToken" -> "approve_spl_token"
              /\ result' = result
    /\ UNCHANGED <<accounts, input, taken, inspected, calls, resp, prev, codecVars>>

\* The next_account_info calls that open a handler: on an exhausted iterator
\* `?` returns NotEnoughAccountKeys; otherwise the handler goes on to its checks.
FetchAccounts(at, n, next) ==
    /\ pc = at
    /\ LET got == NextAccountInfos(accounts, n) IN
         /\ taken' = got.fetched
         /\ IF got.ok
            THEN pc' = next /\ result' = result
            ELSE pc' = "done" /\ result' = NotEnoughAccountKeys
    /\ UNCHANGED <<accounts, input, instr, inspected, calls, resp, prev, codecVars>>

\* The flag checks of a handler: the first failing one returns its error.
CheckFlags(at, checked, next) ==
    /\ pc = at
    /\ inspected' = inspected \cup checked.seen
    /\ IF checked.res = Ok
       THEN pc' = next /\ result' = result
       ELSE pc' = "done" /\ result' = checked.res
    /\ UNCHANGED <<accounts, input, instr, taken, calls, resp, prev, codecVars>>

BuildAndInvokeRetry(at, built, account_infos) ==
    /\ pc = at
    /\ pc' = "done"
    /\ IF ~built.ok
       THEN /\ result' = IncorrectProgramId
            /\ UNCHANGED <<calls, resp>>
       ELSE \E r \in InvokeResults :
              /\ calls' = IF r = Ok
                          THEN Invoke(calls, built.value, account_infos)
                          ELSE Invoke(Invoke(calls, built.value, account_infos),
                                      built.value, account_infos)
              /\ resp' = r
              /\ result' = r
    /\ UNCHANGED <<accounts, input, instr, taken, inspected, prev, codecVars>>

\* Build the instruction (`?` returns the builder's failure) and invoke it
\* (`?` returns the failure of the call); Ok(()) after a successful call.
BuildAndInvoke(at, built, account_infos) ==
    /\ pc = at
    /\ pc' = "done"
    /\ IF ~built.ok
       THEN /\ result' = IncorrectProgramId
            /\ UNCHANGED <<calls, resp>>
       ELSE \E r \in InvokeResults :
              /\ calls' = Invoke(calls, built.value, account_infos)
              /\ resp' = r
              /\ result' = r
    /\ UNCHANGED <<accounts, input, instr, taken, inspected, prev, codecVars>>

TransferLamportsFetch ==
    FetchAccounts("transfer_lamports", TransferLamportsAccounts, "transfer_lamports_checks")

TransferLamportsCheck ==
    /\ pc = "transfer_lamports_checks"
    /\ CheckFlags("transfer_lamports_checks", TransferLamportsChecks(accounts),
                  "transfer_lamports_invoke")

TransferLamportsInvoke ==
    /\ pc = "transfer_lamports_invoke"
    /\ BuildAndInvoke("transfer_lamports_invoke",
                      Built(SystemTransfer(Acc(accounts, 0).key, Acc(accounts, 1).key,
                                           instr.amount)),
                      <<Acc(accounts, 0), Acc(accounts, 1)>>)

TransferSplTokenFetch ==
    FetchAccounts("transfer_spl_token", TransferSplTokenAccounts, "transfer_spl_token_checks")

TransferSplTokenCheck ==
    /\ pc = "transfer_spl_token_checks"
    /\ CheckFlags("transfer_spl_token_checks", TransferSplTokenChecks(accounts),
                  "transfer_spl_token_invoke")

TransferSplTokenInvoke ==
    /\ pc = "transfer_spl_token_invoke"
    /\ BuildAndInvoke("transfer_spl_token_invoke",
                      SplTransfer(Acc(accounts, 3).key, Acc(accounts, 1).key,
                                  Acc(accounts, 2).key, Acc(accounts, 0).key,
                                  <<Acc(accounts, 0).key>>, instr.amount),
                      <<Acc(accounts, 0), Acc(accounts, 1), Acc(accounts, 2),
                        Acc(accounts, 3)>>)

ApproveSplTokenFetch ==
    FetchAccounts("approve_spl_token", ApproveSplTokenAccounts, "approve_spl_token_checks")

ApproveSplTokenCheck ==
    /\ pc = "approve_spl_token_checks"
    /\ CheckFlags("approve_spl_token_checks", ApproveSplTokenChecks(accounts),
                  "approve_spl_token_invoke")

ApproveSplTokenInvoke ==
    /\ pc = "approve_spl_token_invoke"
    /\ BuildAndInvoke("approve_spl_token_invoke",
                      SplApprove(Acc(accounts, 3).key, Acc(accounts, 1).key,
                                 Acc(accounts, 2).key, Acc(accounts, 0).key,
                                 <<Acc(accounts, 0).key>>, instr.amount),
                      <<Acc(accounts, 0), Acc(accounts, 1), Acc(accounts, 2),
                        Acc(accounts, 3)>>)

Next ==
    \/ Process
    \/ TransferLamportsFetch
    \/ TransferLamportsCheck
    \/ TransferLamportsInvoke
    \/ TransferSplTokenFetch
    \/ TransferSplTokenCheck
    \/ TransferSplTokenInvoke
    \/ ApproveSplTokenFetch
    \/ ApproveSplTokenCheck
    \/ ApproveSplTokenInvoke

Spec == Init /\ [][Next]_vars

-----------------------------------------------------------------------------
(* A second dispatch by the host: the entrypoint runs Processor::process once
   per instruction, and nothing of one run is kept for the next. *)

\* The list with flag f of the account at 0-based position p negated.
Toggle(accs, p, f) ==
    [accs EXCEPT ![p + 1] =
        IF f = "is_signer"
        THEN AccountInfo(@.key, ~@.is_signer, @.is_writable)
        ELSE AccountInfo(@.key, @.is_signer, ~@.is_writable)]

\* The host keeps what the finished dispatch did and submits the same payload
\* again with one flag of one account changed.
Redispatch ==
    /\ pc = "done"
    /\ ~prev.set
    /\ \E p \in 0..(Len(accounts) - 1), f \in {"is_signer", "is_writable"} :
         accounts' = Toggle(accounts, p, f)
    /\ prev' = [set |-> TRUE, accounts |-> accounts, calls |-> calls, resp |-> resp,
                result |-> result]
    /\ pc' = "process"
    /\ instr' = NoInstr
    /\ taken' = 0
    /\ inspected' = {}
    /\ calls' = <<>>
    /\ resp' = NoResult
    /\ result' = NoResult
    /\ UNCHANGED <<input, codecVars>>

\* The payloads a client serializes.
ClientInputs == {TryToVec(TokenInstruction(Variants[i], a)) : i \in 1..3, a \in Amounts}

InitPair ==
    /\ Init
    /\ input \in ClientInputs

NextPair == Next \/ Redispatch

SpecPair == InitPair /\ [][NextPair]_vars

-----------------------------------------------------------------------------
(* The codec on its own, as the unit tests of instruction.rs run it *)

ByteSamples == {0, 135, 255}

Operations ==
    {TokenInstruction(Variants[i], U64(l3, l2, l1, l0)) :
        i \in 1..3, l3 \in {0, 65535}, l2 \in {0, 1, 65535},
        l1 \in LimbSamples, l0 \in LimbSamples}

RawInputs ==
    {Prefix(<<t>> \o body \o <<7, 7, 7, 7>>, n) :
        t \in 0..MaxTag, body \in [1..8 -> ByteSamples], n \in 0..MaxInputLen}

InitCodec ==
    /\ pc = "codec"
    /\ \/ op \in Operations /\ input = <<>>
       \/ op = NoInstr /\ input \in RawInputs
    /\ accounts = <<>>
    /\ instr = NoInstr
    /\ taken = 0
    /\ inspected = {}
    /\ calls = <<>>
    /\ resp = NoResult
    /\ result = NoResult
    /\ prev = NoPrev
    /\ wire = <<>>
    /\ back = IoErr
    /\ rewire = <<>>

dispatchVars == <<accounts, instr, taken, inspected, calls, resp, result, prev>>

\* test_serialization: instr.try_to_vec().
Serialize ==
    /\ pc = "codec"
    /\ op # NoInstr
    /\ wire' = TryToVec(op)
    /\ pc' = "serialized"
    /\ UNCHANGED <<input, op, back, rewire, dispatchVars>>

\* test_deserialization on the serialized bytes: TokenInstruction::try_from_slice.
Deserialize ==
    /\ pc = "serialized"
    /\ back' = TryFromSlice(wire)
    /\ pc' = "roundtrip"
    /\ UNCHANGED <<input, op, wire, rewire, dispatchVars>>

\* test_deserialization on bytes that no serialization produced.
DeserializeRaw ==
    /\ pc = "codec"
    /\ op = NoInstr
    /\ back' = TryFromSlice(input)
    /\ pc' = IF back'.ok THEN "parsed" ELSE "rejected"
    /\ UNCHANGED <<input, op, wire, rewire, dispatchVars>>

\* The parsed instruction serialized again.
Reserialize ==
    /\ pc = "parsed"
    /\ rewire' = TryToVec(back.value)
    /\ pc' = "reserialized"
    /\ UNCHANGED <<input, op, wire, back, dispatchVars>>

NextCodec == Serialize \/ Deserialize \/ DeserializeRaw \/ Reserialize

SpecCodec == InitCodec /\ [][NextCodec]_vars

-----------------------------------------------------------------------------
(* Properties *)

Fungible == {"TransferSplToken", "ApproveSplToken"}

\* The dispatch has finished with a decoded instruction.
DoneDecoded == pc = "done" /\ instr # NoInstr

\* The number of accounts the handler of a variant fetches.
Fetches(variant) ==
    CASE variant = "TransferLamports" -> TransferLamportsAccounts
      [] variant = "TransferSplToken" -> TransferSplTokenAccounts
      [] variant = "ApproveSplToken" -> ApproveSplTokenAccounts

\* The flags the documented schema of a variant requires, by 0-based position.
RequiredFlags(variant) ==
    IF variant = "TransferLamports"
    THEN {<<0, "is_signer">>, <<0, "is_writable">>, <<1, "is_writable">>}
    ELSE {<<0, "is_signer">>, <<1, "is_writable">>, <<2, "is_writable">>}

FlagOf(accs, pf) ==
    IF pf[2] = "is_signer" THEN Acc(accs, pf[1]).is_signer ELSE Acc(accs, pf[1]).is_writable

AccountNonWritableError == ProgramError("Custom", 0)

\* C1: whenever an external call has been issued, every flag the schema of the
\* decoded operation requires has been read before and is true.
C1_InvokeOnlyAfterFlags ==
    calls # <<>> =>
        /\ instr # NoInstr
        /\ RequiredFlags(instr.variant) \subseteq inspected
        /\ \A pf \in RequiredFlags(instr.variant) : FlagOf(accounts, pf)

C1_Witness ==
    /\ pc = "done"
    /\ instr.variant = "TransferSplToken"
    /\ Len(calls) = 1
    /\ result = Ok

\* The length of the positional schema as documented: from, to, system program
\* for lamports; authority, source, destination, token program for SPL.
SchemaLen(variant) == IF variant = "TransferLamports" THEN 3 ELSE 4

\* C2: a dispatch of a decoded operation with fewer accounts than the schema
\* has positions fails with NotEnoughAccountKeys (MissingAccount), having read
\* no flag and issued no call.
C2_ShortListFails ==
    (DoneDecoded /\ Len(accounts) < SchemaLen(instr.variant)) =>
        /\ result = NotEnoughAccountKeys
        /\ inspected = {}
        /\ calls = <<>>

\* C3: with a decoded payload and enough accounts, a position 0 that is not a
\* signer makes the dispatch fail with MissingRequiredSignature whatever the
\* writable flags are; no writable flag is read and no call is issued.
C3_SignerBeforeWritable ==
    (DoneDecoded /\ Len(accounts) >= Fetches(instr.variant) /\ ~Acc(accounts, 0).is_signer) =>
        /\ result = MissingRequiredSignature
        /\ result # AccountNonWritableError
        /\ \A pf \in inspected : pf[2] # "is_writable"
        /\ calls = <<>>

C3_Witness ==
    /\ DoneDecoded
    /\ instr.variant = "TransferLamports"
    /\ Len(accounts) >= 2
    /\ ~Acc(accounts, 0).is_signer
    /\ ~Acc(accounts, 0).is_writable
    /\ ~Acc(accounts, 1).is_writable
    /\ result = MissingRequiredSignature

\* The positions the schema of a variant requires to be writable.
WritablePositions(variant) == IF variant = "TransferLamports" THEN {0, 1} ELSE {1, 2}

\* C4: with a decoded payload, enough accounts and a signer at position 0, a
\* required-writable position that is not writable makes the dispatch fail with
\* Custom(0) (AccountNonWritable), which is not MissingRequiredSignature, and
\* no call is issued.
C4_WritableEnforced ==
    (/\ DoneDecoded
     /\ Len(accounts) >= Fetches(instr.variant)
     /\ Acc(accounts, 0).is_signer
     /\ \E p \in WritablePositions(instr.variant) : ~Acc(accounts, p).is_writable) =>
        /\ result = AccountNonWritableError
        /\ result # MissingRequiredSignature
        /\ calls = <<>>

C4_Witness ==
    /\ DoneDecoded
    /\ instr.variant = "TransferLamports"
    /\ Len(accounts) >= 2
    /\ Acc(accounts, 0).is_signer
    /\ Acc(accounts, 0).is_writable
    /\ ~Acc(accounts, 1).is_writable
    /\ result = AccountNonWritableError
    /\ calls = <<>>

\* The instructions of a sequence of calls, without the account handles.
Instructions(issued) == [i \in 1..Len(issued) |-> issued[i].instruction]

\* The flag the schema of a variant does not require and the claim names:
\* the destination's is_signer for lamports, the authority's is_writable for
\* the two token operations.
UnneededFlag(variant) ==
    IF variant = "TransferLamports" THEN <<1, "is_signer">> ELSE <<0, "is_writable">>

\* The finished dispatch repeats the previous one with only that flag changed.
OnlyUnneededFlagDiffers ==
    /\ DoneDecoded
    /\ prev.set
    /\ Len(accounts) > UnneededFlag(instr.variant)[1]
    /\ prev.accounts =
         Toggle(accounts, UnneededFlag(instr.variant)[1], UnneededFlag(instr.variant)[2])

ValidationErrors ==
    {BorshIoError, NotEnoughAccountKeys, MissingRequiredSignature, AccountNonWritableError}

\* C5: two dispatches that differ only in a flag the schema does not require
\* issue the same external calls and, given the same response of the call, end
\* in the same result; and a token dispatch whose authority is not writable,
\* with enough accounts and all required flags true, passes validation, issues
\* its call when position 3 is the token program, and returns Ok when the
\* call returns Ok.
C5_UnneededFlagsIrrelevant ==
    /\ OnlyUnneededFlagDiffers =>
         /\ Instructions(calls) = Instructions(prev.calls)
         /\ (resp = prev.resp => result = prev.result)
    /\ (/\ DoneDecoded
        /\ instr.variant \in Fungible
        /\ Len(accounts) >= Fetches(instr.variant)
        /\ ~Acc(accounts, 0).is_writable
        /\ \A pf \in RequiredFlags(instr.variant) : FlagOf(accounts, pf)) =>
         /\ result \notin ValidationErrors
         /\ (CheckProgramAccount(Acc(accounts, 3).key) => Len(calls) = 1)
         /\ (resp = Ok => result = Ok)
         /\ (result = Ok => resp = Ok)

C5_Witness ==
    /\ OnlyUnneededFlagDiffers
    /\ instr.variant = "ApproveSplToken"
    /\ ~Acc(accounts, 0).is_writable
    /\ Acc(prev.accounts, 0).is_writable
    /\ prev.result = Ok
    /\ result = Ok
    /\ Len(calls) = 1

\* C6: a payload that is not exactly 9 bytes long, or whose first byte is 3 or
\* more, makes the dispatch fail with BorshIoError (MalformedInstruction)
\* whatever the accounts are: no account is fetched, no flag read, no call issued.
C6_DecodeFailsClosed ==
    (pc = "done" /\ (Len(input) # 9 \/ input[1] >= 3)) =>
        /\ result = BorshIoError
        /\ instr = NoInstr
        /\ taken = 0
        /\ inspected = {}
        /\ calls = <<>>

C6_Witness ==
    /\ pc = "done"
    /\ Len(input) = 10
    /\ input[1] = 0
    /\ Len(accounts) = 4
    /\ \A pf \in RequiredFlags("TransferLamports") : FlagOf(accounts, pf)
    /\ result = BorshIoError

MaxU64 == U64(65535, 65535, 65535, 65535)

\* C7: deserializing the serialization of an operation gives the operation
\* back, for each variant and amount; serializing what a payload deserializes
\* to gives the payload back.
C7_RoundTrip ==
    /\ pc = "roundtrip" => (back.ok /\ back.value = op)
    /\ pc = "reserialized" => rewire = input

C7_Witness ==
    /\ pc = "roundtrip"
    /\ op.variant = "ApproveSplToken"
    /\ op.amount = MaxU64
    /\ back = IoOk(op)

\* A u64 small enough to be one TLC integer, and that integer.
Small(a) == a[1] = 0 /\ a[2] = 0 /\ a[3] < 32768
ValueOf(a) == a[3] * 65536 + a[4]

\* C8: a serialized operation is exactly 9 bytes: the discriminant (0, 1, 2)
\* and the amount in little-endian order, bytes 2j+1 and 2j+2 being the low and
\* the high byte of the j-th 16-bit limb; byte i+1 = (amount div 256^i) mod 256.
\* TransferLamports{1_234_567} serializes to [0,135,214,18,0,0,0,0,0].
C8_WireLayout ==
    (pc \in {"serialized", "roundtrip"}) =>
        /\ Len(wire) = 9
        /\ wire[1] = (CASE op.variant = "TransferLamports" -> 0
                        [] op.variant = "TransferSplToken" -> 1
                        [] op.variant = "ApproveSplToken" -> 2)
        /\ \A i \in 2..9 : wire[i] \in 0..255
        /\ \A j \in 0..3 : wire[2 * j + 2] + 256 * wire[2 * j + 3] = LimbOf(op.amount, j)
        /\ Small(op.amount) =>
             /\ wire[2] = ValueOf(op.amount) % 256
             /\ wire[3] = (ValueOf(op.amount) \div 256) % 256
             /\ wire[4] = (ValueOf(op.amount) \div 65536) % 256
             /\ wire[5] = (ValueOf(op.amount) \div 16777216) % 256
             /\ \A i \in 6..9 : wire[i] = 0
        /\ (op = TokenInstruction("TransferLamports", U64(0, 0, 18, 54919))) =>
             /\ ValueOf(op.amount) = 1234567
             /\ wire = <<0, 135, 214, 18, 0, 0, 0, 0, 0>>

C8_Witness ==
    /\ pc = "serialized"
    /\ op = TokenInstruction("TransferLamports", U64(0, 0, 18, 54919))
    /\ wire = <<0, 135, 214, 18, 0, 0, 0, 0, 0>>

\* C9: a dispatch issues at most one external call; one that fails in decoding,
\* account fetching or a flag check has issued none; one that returns Ok has
\* issued exactly one, which returned Ok.
C9_AtMostOneCall ==
    /\ Len(calls) <= 1
    /\ (pc = "done" /\ result \in ValidationErrors) => (calls = <<>> /\ resp = NoResult)
    /\ (pc = "done" /\ result = Ok) => (Len(calls) = 1 /\ resp = Ok)
    /\ pc # "done" => (calls = <<>> /\ result = NoResult)

C9_Witness ==
    /\ pc = "done"
    /\ instr.variant = "TransferLamports"
    /\ result = Ok
    /\ resp = Ok
    /\ Len(calls) = 1

\* C10: the call carries the decoded inputs: a system transfer from the key of
\* position 0 to the key of position 1 for TransferLamports; a token transfer
\* (approve) with source = key of position 1, destination (delegate) = key of
\* position 2 and authority = key of position 0 for the token operations; the
\* amount is the one the payload encodes, 0 included.
C10_CallCarriesInputs ==
    calls # <<>> =>
        LET c == calls[1].instruction IN
        /\ c.data.amount = instr.amount
        /\ ToLeBytes(c.data.amount) = SubSeq(input, 2, 9)
        /\ instr.variant = "TransferLamports" =>
             /\ c.program_id = SystemProgramId
             /\ c.data.kind = "SystemInstruction::Transfer"
             /\ Len(c.accounts) = 2
             /\ c.accounts[1].pubkey = Acc(accounts, 0).key
             /\ c.accounts[2].pubkey = Acc(accounts, 1).key
        /\ instr.variant \in Fungible =>
             /\ c.program_id = SplTokenId
             /\ c.data.kind = (IF instr.variant = "TransferSplToken"
                               THEN "TokenInstruction::Transfer"
                               ELSE "TokenInstruction::Approve")
             /\ c.accounts[1].pubkey = Acc(accounts, 1).key
             /\ c.accounts[2].pubkey = Acc(accounts, 2).key
             /\ c.accounts[3].pubkey = Acc(accounts, 0).key

C10_Witness ==
    /\ pc = "done"
    /\ instr = TokenInstruction("TransferLamports", U64(0, 0, 0, 0))
    /\ Len(calls) = 1
    /\ calls[1].instruction.data.amount = U64(0, 0, 0, 0)
    /\ calls[1].instruction.accounts[1].pubkey = "A"
    /\ calls[1].instruction.accounts[2].pubkey = "B"
    /\ result = Ok

\* C11: when the external call fails, the dispatch fails with the value the
\* call returned, unchanged, and that call is the only one issued.
C11_CallFailurePropagated ==
    (pc = "done" /\ resp \in InvokeErrors) =>
        /\ result = resp
        /\ Len(calls) = 1

C11_Witness ==
    /\ pc = "done"
    /\ instr.variant = "TransferSplToken"
    /\ resp = ProgramError("Custom", 1)
    /\ result = ProgramError("Custom", 1)
    /\ Len(calls) = 1

\* The dispatch has finished on a decoded payload, a list of exactly the
\* schema's length and all required flags true.
ValidDispatchDone ==
    /\ DoneDecoded
    /\ Len(accounts) = SchemaLen(instr.variant)
    /\ \A pf \in RequiredFlags(instr.variant) : FlagOf(accounts, pf)

\* The account at the last position of the schema.
Placeholder == Acc(accounts, SchemaLen(instr.variant) - 1)

\* C12 as stated: such a dispatch issues exactly one call whatever account is
\* at the placeholder position, and returns Ok when the call does.
C12_AnyPlaceholder ==
    ValidDispatchDone =>
        /\ Len(calls) = 1
        /\ (resp = Ok => result = Ok)

\* C12 amended: the flags of the placeholder never matter, and neither does the
\* key at position 2 of a lamports transfer; for the two token operations the
\* key at position 3 is the token program id handed to the instruction builder:
\* with spl_token::id() there the one call is issued (and Ok returned when the
\* call returns Ok), with any other key the dispatch fails with
\* IncorrectProgramId and issues no call.
C12_PlaceholderKeyIsProgramId ==
    ValidDispatchDone =>
        IF instr.variant \in Fungible /\ Placeholder.key # SplTokenId
        THEN /\ result = IncorrectProgramId
             /\ calls = <<>>
        ELSE /\ Len(calls) = 1
             /\ result = resp
             /\ (resp = Ok => result = Ok)
             /\ instr.variant \in Fungible =>
                  calls[1].instruction.program_id = Placeholder.key

C12_Witness ==
    /\ ValidDispatchDone
    /\ instr.variant = "TransferSplToken"
    /\ Placeholder.key = SplTokenId
    /\ ~Placeholder.is_writable
    /\ Placeholder.is_signer
    /\ Len(calls) = 1
    /\ result = Ok

-----------------------------------------------------------------------------
(* The client builders of instruction.rs and a dispatch of what they build *)

\* declare_id!: the id of this program.
ProgramId == "token::id()"

\* AccountMeta::new(pubkey, is_signer): writable.
MetaNew(pubkey, is_signer) == AccountMeta(pubkey, is_signer, TRUE)

\* AccountMeta::new_readonly(pubkey, is_signer).
MetaReadonly(pubkey, is_signer) == AccountMeta(pubkey, is_signer, FALSE)

\* Instruction::new_with_borsh(program_id, &data, accounts).
NewWithBorsh(program_id, ins, metas) == Instruction(program_id, metas, TryToVec(ins))

ClientTransferLamportsReadonlyTo(from, to, amount) ==
    NewWithBorsh(ProgramId, TokenInstruction("TransferLamports", amount),
                 <<MetaNew(from, TRUE), MetaReadonly(to, FALSE),
                   MetaReadonly(SystemProgramId, FALSE)>>)

\* TokenInstruction::transfer_lamports(from, to, amount).
ClientTransferLamports(from, to, amount) ==
    NewWithBorsh(ProgramId, TokenInstruction("TransferLamports", amount),
                 <<MetaNew(from, TRUE), MetaNew(to, FALSE),
                   MetaReadonly(SystemProgramId, FALSE)>>)

\* TokenInstruction::transfer_spl_token(from, from_spl_token, to_spl_token, amount).
ClientTransferSplToken(from, from_spl_token, to_spl_token, amount) ==
    NewWithBorsh(ProgramId, TokenInstruction("TransferSplToken", amount),
                 <<MetaReadonly(from, TRUE), MetaNew(from_spl_token, FALSE),
                   MetaNew(to_spl_token, FALSE), MetaReadonly(SplTokenId, FALSE)>>)

\* TokenInstruction::approve_spl_token(from, from_spl_token, to_spl_token, amount).
ClientApproveSplToken(from, from_spl_token, to_spl_token, amount) ==
    NewWithBorsh(ProgramId, TokenInstruction("ApproveSplToken", amount),
                 <<MetaReadonly(from, TRUE), MetaNew(from_spl_token, FALSE),
                   MetaNew(to_spl_token, FALSE), MetaReadonly(SplTokenId, FALSE)>>)

\* The keys a client passes to the builders.
ClientKeys == {"A", "B", "C"}

\* The account handles the host passes for an instruction of a signed
\* transaction: one per meta, in order; a key that occurs more than once is
\* one account of the transaction, signer (writable) if any of its metas is.
LoadAccounts(metas) ==
    [i \in 1..Len(metas) |->
        AccountInfo(metas[i].pubkey,
                    \E j \in 1..Len(metas) :
                        metas[j].pubkey = metas[i].pubkey /\ metas[j].is_signer,
                    \E j \in 1..Len(metas) :
                        metas[j].pubkey = metas[i].pubkey /\ metas[j].is_writable)]

InitClient ==
    /\ pc = "client"
    /\ accounts = <<>>
    /\ input = <<>>
    /\ instr = NoInstr
    /\ taken = 0
    /\ inspected = {}
    /\ calls = <<>>
    /\ resp = NoResult
    /\ result = NoResult
    /\ prev = NoPrev
    /\ op = NoInstr
    /\ wire = <<>>
    /\ back = IoErr
    /\ rewire = <<>>

\* The client builds an instruction and the host dispatches it: the payload is
\* the instruction's data, the accounts are those of its metas.
Submit(ins, ix) ==
    /\ pc = "client"
    /\ op' = ins
    /\ input' = ix.data
    /\ accounts' = LoadAccounts(ix.accounts)
    /\ pc' = "process"
    /\ UNCHANGED <<instr, taken, inspected, calls, resp, result, prev, wire, back, rewire>>

SubmitTransferLamports ==
    \E from \in ClientKeys, to \in ClientKeys, amount \in Amounts :
        Submit(TokenInstruction("TransferLamports", amount),
               ClientTransferLamports(from, to, amount))

SubmitTransferSplToken ==
    \E from \in ClientKeys, from_spl_token \in ClientKeys, to_spl_token \in ClientKeys,
       amount \in Amounts :
        Submit(TokenInstruction("TransferSplToken", amount),
               ClientTransferSplToken(from, from_spl_token, to_spl_token, amount))

SubmitApproveSplToken ==
    \E from \in ClientKeys, from_spl_token \in ClientKeys, to_spl_token \in ClientKeys,
       amount \in Amounts :
        Submit(TokenInstruction("ApproveSplToken", amount),
               ClientApproveSplToken(from, from_spl_token, to_spl_token, amount))

NextClient ==
    \/ SubmitTransferLamports
    \/ SubmitTransferSplToken
    \/ SubmitApproveSplToken
    \/ Next

SpecClient == InitClient /\ [][NextClient]_vars

\* C13: an instruction built by a client builder passes the processor's
\* validation: its payload decodes to the operation and amount it was built
\* for, its accounts are as many as the schema has positions and carry every
\* required flag, the program ids sit at their positions, and the dispatch
\* does not fail with NotEnoughAccountKeys, MissingRequiredSignature or
\* Custom(0) (AccountNonWritable) but reaches its one external call.
C13_BuiltInstructionsPass ==
    pc # "client" =>
        /\ TryFromSlice(input) = IoOk(op)
        /\ Len(accounts) = SchemaLen(op.variant)
        /\ Len(accounts) >= Fetches(op.variant)
        /\ \A pf \in RequiredFlags(op.variant) : FlagOf(accounts, pf)
        /\ op.variant = "TransferLamports" => Acc(accounts, 2).key = SystemProgramId
        /\ op.variant \in Fungible => Acc(accounts, 3).key = SplTokenId
        /\ pc = "done" =>
             /\ instr = op
             /\ result \notin {NotEnoughAccountKeys, MissingRequiredSignature,
                               AccountNonWritableError}
             /\ result \notin {BorshIoError, IncorrectProgramId}
             /\ Len(calls) = 1
             /\ result = resp

C13_Witness ==
    /\ pc = "done"
    /\ op.variant = "TransferSplToken"
    /\ Acc(accounts, 0).key = "A"
    /\ ~Acc(accounts, 0).is_writable
    /\ Acc(accounts, 1).key = "B"
    /\ Acc(accounts, 2).key = "C"
    /\ Len(calls) = 1
    /\ result = Ok

====
